---- MODULE Spec2Model ----
(***************************************************************************)
(* A model of DWDGetData.py: the fetch/decode routine GetFile.getFile, the *)
(* change-log resolver GetUpdatedFiles.getUpdatedData and the two lazy     *)
(* pipelines GetUpdatedFiles.start and GetStaticFiles.start.               *)
(*                                                                         *)
(* Representation.                                                         *)
(*  - A byte string and a str are sequences of numbers (byte values, code  *)
(*    points); a Python value is a record [type, data] with type one of    *)
(*    "bytes", "str", "json", "None", "unbound" (a local never assigned).  *)
(*  - A file name is the sequence of its stem and its extensions,          *)
(*    <<"d", ".txt", ".gz">> for d.txt.gz; a URL is [prefix, path] with    *)
(*    prefix the text before the name ("" for a relative path).            *)
(*  - The archive formats are modelled as stored (uncompressed) containers *)
(*    that keep the real magic numbers: BZ.. , 1f 8b .. , PK n (len m)*.   *)
(*  - A naive timestamp is its number of seconds on the wall clock, an     *)
(*    aware one its number of seconds in UTC.                              *)
(***************************************************************************)
EXTENDS Integers, Sequences, FiniteSets, TLC

VARIABLES
    variant,            \* "updated" (GetUpdatedFiles) or "static" (GetStaticFiles), or "resolver"
    url_base,           \* self.url_base
    localStoragePath,   \* self.localStoragePath is set
    min_delta,          \* self.min_delta
    pattern,            \* self.pattern, as the set of names it matches
    updated_since,      \* the argument of start(), then self.updated_since
    gen,                \* the generator: "created", "running", "suspended", "done", "raised"
    gpc,                \* where the generator's body stands
    content_log_lines,  \* start(): the lines grepFromPattern returned
    files,              \* start(): updated_files / nlst_reduced
    indx,               \* start(): the enumerate() position of the loop
    call,               \* the running getFile call: its locals and its position
    listing,            \* what getFolderContentList returned to start()
    storage,            \* the files under localStoragePath: name -> bytes written
    issued,             \* candidate positions whose fetch was issued, in order
    emitted,            \* the (indx, basename) of the triples yielded so far
    yielded,            \* the last triple yielded, with its content
    exc,                \* the exception that ended the run ("" when none)
    consumer            \* "pulling" or "stopped"

vars == <<variant, url_base, localStoragePath, min_delta, pattern, updated_since,
          gen, gpc, content_log_lines, files, indx, call, listing, storage,
          issued, emitted, yielded, exc, consumer>>

config == <<variant, url_base, localStoragePath, min_delta, pattern>>

-----------------------------------------------------------------------------
(* Bounds of the model. *)

\* the longest change log / directory listing a run discovers
MaxLines == 2
\* the longest list of lines handed to getUpdatedData on its own
MaxLogLines == 3

-----------------------------------------------------------------------------
(* Python values. *)

Bytes(b) == [type |-> "bytes", data |-> b]
Str(s) == [type |-> "str", data |-> s]
Json(s) == [type |-> "json", data |-> s]
None == [type |-> "None", data |-> <<>>]
Unbound == [type |-> "unbound", data |-> <<>>]

\* bytes.startswith / comparison of a prefix
startswith(s, p) == Len(s) >= Len(p) /\ SubSeq(s, 1, Len(p)) = p

GRIB == <<71, 82, 73, 66>>

\* GetFile.textFileExt, GetFile.archiveFileExt
textFileExt == {".txt", ".csv", ".log"}
archiveFileExt == {".bz2", ".gz", ".zip"}

\* os.path.splitext on a name: <<root, ext>>
splitext(name) ==
    IF Len(name) > 1 THEN <<SubSeq(name, 1, Len(name) - 1), name[Len(name)]>>
    ELSE <<name, "">>

\* str.startswith('.grib') on an extension
StartsWithGrib(ext) == ext \in {".grib", ".grib1", ".grib2"}

-----------------------------------------------------------------------------
(* Codecs. *)

IsCont(b) == b >= 128 /\ b <= 191

\* The length of the well-formed UTF-8 sequence at the head of b, 0 if none.
Utf8Head(b) ==
    LET n == Len(b)
        c == b[1]
    IN  IF c < 128 THEN 1
        ELSE IF c >= 194 /\ c <= 223
             THEN IF n >= 2 /\ IsCont(b[2]) THEN 2 ELSE 0
        ELSE IF c >= 224 /\ c <= 239
             THEN IF n >= 3 /\ IsCont(b[2]) /\ IsCont(b[3])
                     /\ (c = 224 => b[2] >= 160) /\ (c = 237 => b[2] <= 159)
                  THEN 3 ELSE 0
        ELSE IF c >= 240 /\ c <= 244
             THEN IF n >= 4 /\ IsCont(b[2]) /\ IsCont(b[3]) /\ IsCont(b[4])
                     /\ (c = 240 => b[2] >= 144) /\ (c = 244 => b[2] <= 143)
                  THEN 4 ELSE 0
        ELSE 0

Utf8Point(b, k) ==
    CASE k = 1 -> b[1]
      [] k = 2 -> (b[1] - 192) * 64 + (b[2] - 128)
      [] k = 3 -> (b[1] - 224) * 4096 + (b[2] - 128) * 64 + (b[3] - 128)
      [] OTHER -> (b[1] - 240) * 262144 + (b[2] - 128) * 4096
                  + (b[3] - 128) * 64 + (b[4] - 128)

\* bytes.decode('utf-8'): [ok, data]; ok = FALSE is UnicodeDecodeError
RECURSIVE Utf8Decode(_)
Utf8Decode(b) ==
    IF b = <<>> THEN [ok |-> TRUE, data |-> <<>>]
    ELSE LET k == Utf8Head(b)
         IN  IF k = 0 THEN [ok |-> FALSE, data |-> <<>>]
             ELSE LET rest == Utf8Decode(SubSeq(b, k + 1, Len(b)))
                  IN  IF rest.ok
                      THEN [ok |-> TRUE, data |-> <<Utf8Point(b, k)>> \o rest.data]
                      ELSE rest

\* one byte of ISO-8859-15: Latin-1 except in eight places
Iso885915Point(c) ==
    CASE c = 164 -> 8364
      [] c = 166 -> 352
      [] c = 168 -> 353
      [] c = 180 -> 381
      [] c = 184 -> 382
      [] c = 188 -> 338
      [] c = 189 -> 339
      [] c = 190 -> 376
      [] OTHER -> c

\* bytes.decode('iso-8859-15'): total, never raises
Iso885915Decode(b) == [i \in 1..Len(b) |-> Iso885915Point(b[i])]

\* The JSON documents of the model are the integer literals: json.loads accepts
\* a text exactly when it is one.
IsDigit(c) == c >= 48 /\ c <= 57
JsonValid(s) ==
    /\ Len(s) >= 1
    /\ \A i \in 1..Len(s) : IsDigit(s[i])
    /\ (Len(s) > 1 => s[1] # 48)

\* json.loads(rs): "ok" with the value, "JSONDecodeError", or another error
\* (UnicodeDecodeError when bytes do not decode, TypeError for None).
json_loads(rs) ==
    CASE rs.type = "str" ->
            IF JsonValid(rs.data) THEN [res |-> "ok", val |-> Json(rs.data)]
            ELSE [res |-> "JSONDecodeError", val |-> None]
      [] rs.type = "bytes" ->
            LET d == Utf8Decode(rs.data)
            IN  IF ~d.ok THEN [res |-> "UnicodeDecodeError", val |-> None]
                ELSE IF JsonValid(d.data) THEN [res |-> "ok", val |-> Json(d.data)]
                ELSE [res |-> "JSONDecodeError", val |-> None]
      [] rs.type = "unbound" -> [res |-> "UnboundLocalError", val |-> None]
      [] OTHER -> [res |-> "TypeError", val |-> None]

-----------------------------------------------------------------------------
(* Archives. *)

bz2_compress(b) == <<66, 90>> \o b
gzip_compress(b) == <<31, 139>> \o b

RECURSIVE ZipMembers(_)
ZipMembers(ms) ==
    IF ms = <<>> THEN <<>>
    ELSE <<Len(ms[1])>> \o ms[1] \o ZipMembers(Tail(ms))

zip_compress(ms) == <<80, 75, Len(ms)>> \o ZipMembers(ms)

\* bz2.decompress / gzip.decompress: [exc, rs]; exc names the error raised
bz2_decompress(content) ==
    IF startswith(content, <<66, 90>>)
    THEN [exc |-> "", rs |-> Bytes(SubSeq(content, 3, Len(content)))]
    ELSE [exc |-> "OSError", rs |-> None]

gzip_decompress(content) ==
    IF startswith(content, <<31, 139>>)
    THEN [exc |-> "", rs |-> Bytes(SubSeq(content, 3, Len(content)))]
    ELSE [exc |-> "BadGzipFile", rs |-> None]

\* GetFile.zipdecompress: the only member's bytes; with another number of
\* members it logs an error and falls off its end, returning None.
zipdecompress(content) ==
    IF ~(startswith(content, <<80, 75>>) /\ Len(content) >= 3)
    THEN [exc |-> "BadZipFile", rs |-> None]
    ELSE IF content[3] = 1
         THEN [exc |-> "", rs |-> Bytes(SubSeq(content, 5, 4 + content[4]))]
         ELSE [exc |-> "", rs |-> None]

\* rs.decode(encoding) at the end of decompress
DecompressDecode(rs) ==
    LET d == Utf8Decode(rs.data)
    IN  IF d.ok THEN [exc |-> "", rs |-> Str(d.data)]
        ELSE [exc |-> "UnicodeDecodeError", rs |-> None]

\* function[fmt](content) in decompress
unpack(content, fmt) ==
    CASE fmt = ".bz2" -> bz2_decompress(content)
      [] fmt = ".gz" -> gzip_decompress(content)
      [] OTHER -> zipdecompress(content)

\* decompress without its test for the GRIB magic: it always decodes
decompress_AlwaysDecodes(content, fmt) ==
    LET r == unpack(content, fmt)
    IN  IF r.exc # "" THEN r
        ELSE IF r.rs.type = "None" THEN [exc |-> "AttributeError", rs |-> None]
        ELSE DecompressDecode(r.rs)

\* GetFile.decompress(content, fmt, encoding="utf-8"): None has no startswith
decompress(content, fmt) ==
    LET r == unpack(content, fmt)
    IN  IF r.exc # "" THEN r
        ELSE IF r.rs.type = "None" THEN [exc |-> "AttributeError", rs |-> None]
        ELSE IF startswith(r.rs.data, GRIB) THEN r
        ELSE DecompressDecode(r.rs)

-----------------------------------------------------------------------------
(* URLs and names. *)

\* os.path.join(url_base, name) for a relative name
Join(base, name) == [prefix |-> base, path |-> name]

\* str.startswith on a URL, for the two prefixes getFile tests
StartsWithFile(url) == url.prefix \in {"file:///d/", "file:/d/"}
StartsWithFileSlashes(url) == url.prefix = "file:///d/"

-----------------------------------------------------------------------------
(* GetUpdatedFiles.getUpdatedData. *)

\* A line of the change log is the sequence of its "|"-separated fields; the
\* changed_at field is [iso, t]: whether it is a naive ISO timestamp, and its
\* seconds.
Field(stamp) == [kind |-> "field", iso |-> stamp.iso, t |-> stamp.t]
Datetime(t) == [kind |-> "datetime", iso |-> TRUE, t |-> t]
NoLocals == [path |-> <<>>, changed_at |-> [kind |-> "unbound", iso |-> FALSE, t |-> 0]]

\* self.updated_since.astimezone(datetime.timezone.utc): an aware datetime
\* carries its offset, a naive one is taken in the system's zone (off).
astimezone_utc(dt) == dt.wall - dt.off

\* path, size, changed_at = line.strip().split("|"): the locals afterwards. A
\* line with another number of fields raises ValueError before anything is
\* assigned; the handler logs it and the locals keep their old values.
SplitLine(line, locals) ==
    IF Len(line) = 3
    THEN [path |-> line[1], changed_at |-> Field(line[3])]
    ELSE locals

\* datetime.fromisoformat(f"{changed_at}+00:00"): [exc, t]
fromisoformat_utc(changed_at) ==
    CASE changed_at.kind = "unbound" -> [exc |-> "UnboundLocalError", t |-> 0]
      [] changed_at.kind = "datetime" -> [exc |-> "ValueError", t |-> 0]
      [] ~changed_at.iso -> [exc |-> "ValueError", t |-> 0]
      [] OTHER -> [exc |-> "", t |-> changed_at.t]

\* (changed_at - updated_since).total_seconds() > self.min_delta
IsUpdated(t, since, delta) == t - since > delta

\* the body of "if ... > self.min_delta": append, or call the list
AppendUpdated(acc, base, path) ==
    IF base # ""
    THEN [exc |-> "", files |-> Append(acc, Join(base, path))]
    ELSE [exc |-> "TypeError", files |-> acc]

\* the for loop of getUpdatedData from line i on
RECURSIVE UpdatedLoop(_, _, _, _, _, _, _)
UpdatedLoop(lines, i, locals, acc, since, delta, base) ==
    IF i > Len(lines) THEN [exc |-> "", files |-> acc]
    ELSE LET l1 == SplitLine(lines[i], locals)
             dt == fromisoformat_utc(l1.changed_at)
             l2 == [l1 EXCEPT !.changed_at = Datetime(dt.t)]
         IN  IF dt.exc # "" THEN [exc |-> dt.exc, files |-> <<>>]
             ELSE IF IsUpdated(dt.t, since, delta)
                  THEN LET r == AppendUpdated(acc, base, l1.path)
                       IN  IF r.exc # "" THEN [exc |-> r.exc, files |-> <<>>]
                           ELSE UpdatedLoop(lines, i + 1, l2, r.files, since, delta, base)
                  ELSE UpdatedLoop(lines, i + 1, l2, acc, since, delta, base)

\* getUpdatedData(content_log_lines): [exc, files]
getUpdatedData(lines) ==
    UpdatedLoop(lines, 1, NoLocals, <<>>, astimezone_utc(updated_since),
                min_delta, url_base)

-----------------------------------------------------------------------------
(* The environment: what the names, the remote resources and the answers of  *)
(* the servers may be.                                                       *)

\* the names the pattern of a run matches, and one it does not
Names == {<<"a", ".json">>, <<"b", ".bin">>, <<"c", ".txt">>,
          <<"d", ".txt", ".gz">>, <<"e", ".grib2", ".bz2">>,
          <<"f", ".txt", ".zip">>, <<"g", ".json", ".gz">>, <<"h", ".grib2">>}
OtherName == <<"z", ".dat">>

content_log_file_name == <<"content", ".log", ".bz2">>

\* GRIB data (plain ASCII, and with a byte that is not UTF-8), the JSON
\* document 1, the broken document {, text in ISO-8859-15 that is not UTF-8,
\* and UTF-8 text
GribAscii == GRIB
GribBinary == GRIB \o <<228>>
JsonOne == <<49>>
JsonBroken == <<123>>
Latin == <<228, 164>>
Utf8Text == <<195, 164>>

\* what a resource of a name may hold once unwrapped
Payloads(name) ==
    LET inner == IF splitext(name)[2] \in archiveFileExt
                 THEN splitext(splitext(name)[1])[2] ELSE splitext(name)[2]
    IN  CASE inner = ".json" -> {JsonOne, JsonBroken, GribAscii, Latin}
          [] inner = ".bin" -> {JsonOne, Latin}
          [] inner = ".log" -> {Utf8Text, Latin, GribAscii}
          [] OTHER -> {Utf8Text, Latin, GribAscii, GribBinary}

\* the bytes a server may send for a name: a payload wrapped as the name's
\* last extension says; a gzip may be broken, a zip may hold two members or none
Wires(name) ==
    LET ext == splitext(name)[2]
    IN  CASE ext = ".bz2" -> {bz2_compress(p) : p \in Payloads(name)}
          [] ext = ".gz" -> {gzip_compress(p) : p \in Payloads(name)} \cup {Latin}
          [] ext = ".zip" -> {zip_compress(<<p>>) : p \in Payloads(name) \ {GribBinary}}
                             \cup {zip_compress(<<JsonOne, JsonBroken>>), zip_compress(<<>>)}
          [] OTHER -> Payloads(name)

\* what urlopen(url) may do: answer (status 0 stands for the None of a
\* response that is not HTTP), raise HTTPError, or raise another error
Responses(url) ==
    IF url.prefix = "" THEN {[kind |-> "ValueError", status |-> 0, body |-> <<>>]}
    ELSE IF StartsWithFile(url)
    THEN {[kind |-> "response", status |-> 0, body |-> w] : w \in Wires(url.path)}
         \cup {[kind |-> "URLError", status |-> 0, body |-> <<>>]}
    ELSE {[kind |-> "response", status |-> 200, body |-> w] : w \in Wires(url.path)}
         \cup {[kind |-> "response", status |-> 204, body |-> <<>>],
               [kind |-> "HTTPError", status |-> 404, body |-> <<>>],
               [kind |-> "URLError", status |-> 0, body |-> <<>>]}

\* sequences over S of length at most n
SeqUpTo(S, n) == UNION {[1..k -> S] : k \in 0..n}

-----------------------------------------------------------------------------
(* GetFile.getFile, one action per block of its body. *)

IdleCall == [pc |-> "idle", caller |-> "", url |-> [prefix |-> "", path |-> <<>>],
             ext |-> "", basename |-> <<>>, wire |-> <<>>, rs |-> Unbound,
             ret |-> [ok |-> FALSE, val |-> None], trace |-> <<>>]

\* the call getFile(url): rawBasename, ext = splitext(basename(path))
NewCall(caller, url) ==
    [IdleCall EXCEPT !.pc = "urlopen", !.caller = caller, !.url = url,
                     !.ext = splitext(url.path)[2], !.basename = splitext(url.path)[1]]

\* a body that also runs while the generator waits at its yield
Running_Unasked == gen \in {"running", "suspended"}

\* the body of a generator runs only inside a next() of its consumer
Running == gen = "running"

\* an exception leaves getFile and the generator that called it
Raise(c, e) ==
    /\ call' = [c EXCEPT !.pc = "raised"]
    /\ gen' = "raised"
    /\ exc' = e

Return(c, ok, val) ==
    /\ call' = [c EXCEPT !.pc = "returned", !.ret = [ok |-> ok, val |-> val]]
    /\ UNCHANGED <<gen, exc>>

Goto(c, pc) ==
    /\ call' = [c EXCEPT !.pc = pc]
    /\ UNCHANGED <<gen, exc>>

\* "if rf.status == 200 or path.startswith('file')": whether rs is read
ReadsBody(url, status) == status = 200 \/ StartsWithFile(url)

\* the try block: one request; HTTPError is the only error handled
GetFile_urlopen ==
    /\ Running /\ call.pc = "urlopen"
    /\ \E resp \in Responses(call.url) :
         LET c == [call EXCEPT !.trace = Append(@, "urlopen")]
         IN  CASE resp.kind = "HTTPError" -> Return(c, FALSE, None)
               [] resp.kind = "response" ->
                    IF ReadsBody(call.url, resp.status)
                    THEN Goto([c EXCEPT !.wire = resp.body, !.rs = Bytes(resp.body)],
                              "store")
                    ELSE Goto(c, "store")
               [] OTHER -> Raise(c, resp.kind)
    /\ UNCHANGED <<config, updated_since, gpc, content_log_lines, files, indx,
                   listing, storage, issued, emitted, yielded, consumer>>

\* "if self.localStoragePath and not path.startswith('file://')"
Stores(url) == localStoragePath /\ ~StartsWithFileSlashes(url)

\* open(localFilename, "wb") then out.write(rs): the file is created or
\* truncated before rs is looked at
WriteFile(store, name, rs) ==
    {f \in store : f.name # name}
        \cup {[name |-> name, data |-> IF rs.type = "unbound" THEN <<>> ELSE rs.data]}

GetFile_store ==
    /\ Running /\ call.pc = "store"
    /\ IF Stores(call.url)
       THEN /\ storage' = WriteFile(storage, call.url.path, call.rs)
            /\ LET c == [call EXCEPT !.trace = Append(@, "write")]
               IN  IF call.rs.type = "unbound"
                   THEN Raise(c, "UnboundLocalError")
                   ELSE Goto(c, "archive")
       ELSE /\ storage' = storage
            /\ Goto(call, "archive")
    /\ UNCHANGED <<config, updated_since, gpc, content_log_lines, files, indx,
                   listing, issued, emitted, yielded, consumer>>

\* "if ext in self.archiveFileExt": decompress, then the extension below
GetFile_archive ==
    /\ Running /\ call.pc = "archive"
    /\ IF call.ext \in archiveFileExt
       THEN IF call.rs.type = "unbound"
            THEN Raise(call, "UnboundLocalError")
            ELSE LET r == decompress(call.rs.data, call.ext)
                     c == [call EXCEPT !.trace = Append(@, "decompress")]
                 IN  IF r.exc # "" THEN Raise(c, r.exc)
                     ELSE Goto([c EXCEPT !.rs = r.rs,
                                         !.basename = splitext(call.basename)[1],
                                         !.ext = splitext(call.basename)[2]], "text")
       ELSE Goto(call, "text")
    /\ UNCHANGED <<config, updated_since, gpc, content_log_lines, files, indx,
                   listing, storage, issued, emitted, yielded, consumer>>

\* rs.decode(encoding), and rs.decode('iso-8859-15') when that raises
TextDecode(c) ==
    LET d == Utf8Decode(c.rs.data)
    IN  IF d.ok
        THEN [c EXCEPT !.rs = Str(d.data), !.trace = Append(@, "utf-8")]
        ELSE [c EXCEPT !.rs = Str(Iso885915Decode(c.rs.data)),
                       !.trace = @ \o <<"utf-8", "iso-8859-15">>]

\* "if ext in self.textFileExt: if isinstance(rs, bytes)"
GetFile_text ==
    /\ Running /\ call.pc = "text"
    /\ IF call.ext \in textFileExt
       THEN IF call.rs.type = "unbound" THEN Raise(call, "UnboundLocalError")
            ELSE IF call.rs.type = "bytes" THEN Goto(TextDecode(call), "dispatch")
            ELSE Goto(call, "dispatch")
       ELSE Goto(call, "dispatch")
    /\ UNCHANGED <<config, updated_since, gpc, content_log_lines, files, indx,
                   listing, storage, issued, emitted, yielded, consumer>>

\* the if / elif chain on ext, and "return (True, rs)"
GetFile_dispatch ==
    /\ Running /\ call.pc = "dispatch"
    /\ IF call.ext \in {".geojson", ".json"}
       THEN LET j == json_loads(call.rs)
                c == [call EXCEPT !.trace = Append(@, "json.loads")]
            IN  CASE j.res = "ok" -> Return([c EXCEPT !.rs = j.val], TRUE, j.val)
                  [] j.res = "JSONDecodeError" -> Return(c, FALSE, None)
                  [] OTHER -> Raise(c, j.res)
       ELSE IF call.ext = ".bin" THEN Return(call, FALSE, None)
       ELSE IF call.rs.type = "unbound" THEN Raise(call, "UnboundLocalError")
       ELSE Return(call, TRUE, call.rs)
    /\ UNCHANGED <<config, updated_since, gpc, content_log_lines, files, indx,
                   listing, storage, issued, emitted, yielded, consumer>>

-----------------------------------------------------------------------------
(* GetFile.grepFromPattern and GetFile.getFolderContentList. *)

DigitStrings == {"", "120"}

\* re.findall(self.pattern + "\|\d*\|.*", content): the lines whose path the
\* pattern matches, followed by a field of digits and at least one more field
grepLog(lines) ==
    SelectSeq(lines, LAMBDA l : Len(l) >= 3 /\ l[1] \in pattern /\ l[2] \in DigitStrings)

\* re.findall(self.pattern, content) on the joined listing
grepNames(nlst) == SelectSeq(nlst, LAMBDA n : n \in pattern)

\* FTP(url.netloc): the host of url_base, "" when it names none
Netloc(base) == IF base = "https://h/" THEN "h" ELSE ""

\* what getFolderContentList may do: list the directory, return (False, ..)
\* when cwd fails, or raise (no host to log in to, no connection)
FolderAnswers(base) ==
    IF Netloc(base) = "" THEN {[kind |-> "AttributeError", nlst |-> <<>>]}
    ELSE {[kind |-> "ok", nlst |-> l] : l \in SeqUpTo(Names \cup {OtherName}, MaxLines)}
         \cup {[kind |-> "cwd failed", nlst |-> <<>>],
               [kind |-> "OSError", nlst |-> <<>>]}

-----------------------------------------------------------------------------
(* The arguments and the change logs of the runs. *)

\* start(updated_since): None, a datetime, an ISO string, a string that is not
NoSince == [kind |-> "None", wall |-> 0, off |-> 0]
SinceArgs == {[kind |-> k, wall |-> 0, off |-> 0] :
                 k \in {"None", "datetime", "str", "badstr"}}

\* the changed_at fields: a minute and 61 seconds after 00:00 and after 23:00
\* of the day before, and a field that is no timestamp
Stamps == {[iso |-> TRUE, t |-> t] : t \in {-3540, -3539, 60, 61}}
BadStamp == [iso |-> FALSE, t |-> 0]

\* the lines a change log of a run may hold
LogLines ==
    {<<n, "120", [iso |-> TRUE, t |-> t]>> : n \in Names, t \in {61}}
    \cup {<<OtherName, "120", [iso |-> TRUE, t |-> 61]>>,
          <<<<"c", ".txt">>, "120", [iso |-> TRUE, t |-> 60]>>,
          <<<<"c", ".txt">>, "12x", [iso |-> TRUE, t |-> 61]>>,
          <<<<"c", ".txt">>, "120", [iso |-> TRUE, t |-> 61], "x">>}

-----------------------------------------------------------------------------
(* The consumer of the generator. *)

\* next() on the generator
Pull ==
    /\ consumer = "pulling" /\ gen \in {"created", "suspended"}
    /\ gen' = "running"
    /\ UNCHANGED <<config, updated_since, gpc, content_log_lines, files, indx,
                   call, listing, storage, issued, emitted, yielded, exc, consumer>>

\* the consumer drops the generator
Stop ==
    /\ consumer = "pulling" /\ gen \in {"created", "suspended"}
    /\ consumer' = "stopped"
    /\ UNCHANGED <<config, updated_since, gen, gpc, content_log_lines, files,
                   indx, call, listing, storage, issued, emitted, yielded, exc>>

-----------------------------------------------------------------------------
(* GetUpdatedFiles.start and GetStaticFiles.start. *)

\* os.path.join(self.url_base, self.content_log_file_name): the name is
\* relative to url_base, and a full URL when there is no url_base
content_log_url ==
    IF url_base = "" THEN [prefix |-> "https://h/", path |-> content_log_file_name]
    ELSE Join(url_base, content_log_file_name)

\* start() up to its call of getFile for the change log
StartUpdated ==
    /\ Running /\ variant = "updated" /\ gpc = "start"
    /\ IF updated_since.kind = "badstr"
       THEN /\ gen' = "raised" /\ exc' = "ValueError"
            /\ UNCHANGED <<updated_since, gpc, call>>
       ELSE /\ updated_since' = [updated_since EXCEPT !.kind = "datetime"]
            /\ gpc' = "log"
            /\ call' = NewCall("log", content_log_url)
            /\ UNCHANGED <<gen, exc>>
    /\ UNCHANGED <<config, content_log_lines, files, indx, listing, storage,
                   issued, emitted, yielded, consumer>>

\* a start() that does not look at what getFile returned for the log
LogFailed_Ignored(ret) == FALSE

\* "if not rs" after getFile(url)
LogFailed(ret) == ~ret.ok

\* from "if not rs" to the head of the loop. The text of the log is not
\* modelled byte by byte: the lines of a log that arrived are an input here.
AfterLog ==
    /\ Running /\ gpc = "log" /\ call.pc = "returned"
    /\ IF LogFailed(call.ret)
       THEN /\ gen' = "raised" /\ exc' = "BaseException"
            /\ UNCHANGED <<gpc, content_log_lines, files, call>>
       ELSE IF call.ret.val.type # "str"
       THEN /\ gen' = "raised" /\ exc' = "TypeError"
            /\ UNCHANGED <<gpc, content_log_lines, files, call>>
       ELSE /\ call' = IdleCall
            /\ \E log \in SeqUpTo(LogLines, MaxLines) :
                 LET r == getUpdatedData(grepLog(log))
                 IN  /\ content_log_lines' = grepLog(log)
                     /\ IF r.exc # ""
                        THEN /\ gen' = "raised" /\ exc' = r.exc
                             /\ UNCHANGED <<gpc, files>>
                        ELSE /\ files' = r.files
                             /\ gpc' = "loop"
                             /\ UNCHANGED <<gen, exc>>
    /\ UNCHANGED <<config, updated_since, indx, listing, storage, issued, emitted,
                   yielded, consumer>>

NoListing == [pc |-> "idle", ok |-> FALSE, nlst |-> <<>>]

\* GetStaticFiles.start: rs, nlst = self.getFolderContentList()
StartStatic ==
    /\ Running /\ variant = "static" /\ gpc = "start"
    /\ \E ans \in FolderAnswers(url_base) :
         CASE ans.kind = "ok" ->
                /\ listing' = [pc |-> "returned", ok |-> TRUE, nlst |-> ans.nlst]
                /\ gpc' = "list"
                /\ UNCHANGED <<gen, exc>>
           [] ans.kind = "cwd failed" ->
                /\ listing' = [pc |-> "returned", ok |-> FALSE, nlst |-> <<>>]
                /\ gpc' = "list"
                /\ UNCHANGED <<gen, exc>>
           [] OTHER ->
                /\ gen' = "raised" /\ exc' = ans.kind
                /\ UNCHANGED <<gpc, listing>>
    /\ UNCHANGED <<config, updated_since, content_log_lines, files, indx, call,
                   storage, issued, emitted, yielded, consumer>>

\* "if not rs" after getFolderContentList()
ListingFailed(l) == ~l.ok

\* from "if not rs" to the head of the loop
AfterListing ==
    /\ Running /\ gpc = "list" /\ listing.pc = "returned"
    /\ IF ListingFailed(listing)
       THEN /\ gen' = "raised" /\ exc' = "BaseException"
            /\ UNCHANGED <<gpc, files, listing>>
       ELSE /\ files' = [i \in 1..Len(grepNames(listing.nlst)) |->
                           [prefix |-> "", path |-> grepNames(listing.nlst)[i]]]
            /\ listing' = NoListing
            /\ gpc' = "loop"
            /\ UNCHANGED <<gen, exc>>
    /\ UNCHANGED <<config, updated_since, content_log_lines, indx, call, storage,
                   issued, emitted, yielded, consumer>>

\* the URL the loop hands to getFile
FetchUrl(file) ==
    IF variant = "static" /\ url_base # "" THEN Join(url_base, file.path) ELSE file

\* the head of the loop with a candidate left: rs, content = self.getFile(..)
LoopFetch ==
    /\ Running /\ gpc = "loop" /\ indx < Len(files)
    /\ call' = NewCall("loop", FetchUrl(files[indx + 1]))
    /\ issued' = Append(issued, indx)
    /\ gpc' = "fetch"
    /\ UNCHANGED <<config, updated_since, gen, content_log_lines, files, indx,
                   listing, storage, emitted, yielded, exc, consumer>>

\* the head of the loop with no candidate left: the generator ends
LoopEnd ==
    /\ Running /\ gpc = "loop" /\ indx >= Len(files)
    /\ gen' = "done"
    /\ UNCHANGED <<config, updated_since, gpc, content_log_lines, files, indx,
                   call, listing, storage, issued, emitted, yielded, exc, consumer>>

\* a triple numbered by a count of the triples yielded so far
Triple_CountsEmissions(i, file, content) ==
    [indx |-> Len(emitted), basename |-> splitext(file.path)[1], content |-> content]

\* the triple of "yield (indx, basename, content)"
Triple(i, file, content) ==
    [indx |-> i, basename |-> splitext(file.path)[1], content |-> content]

\* "if rs: yield (indx, basename, content)", and on to the next candidate
AfterFetch ==
    /\ Running /\ gpc = "fetch" /\ call.pc = "returned"
    /\ call' = IdleCall
    /\ gpc' = "loop"
    /\ indx' = indx + 1
    /\ IF call.ret.ok
       THEN LET t == Triple(indx, files[indx + 1], call.ret.val)
            IN  /\ yielded' = t
                /\ emitted' = Append(emitted, [indx |-> t.indx, basename |-> t.basename])
                /\ gen' = "suspended"
       ELSE UNCHANGED <<yielded, emitted, gen>>
    /\ UNCHANGED <<config, updated_since, content_log_lines, files, listing,
                   storage, issued, exc, consumer>>

-----------------------------------------------------------------------------
(* The runs of a pipeline. *)

NoTriple == [indx |-> 0, basename |-> <<>>, content |-> None]

Init ==
    /\ variant \in {"updated", "static"}
    /\ url_base \in {"", "https://h/", "file:///d/"}
    /\ localStoragePath \in BOOLEAN
    /\ min_delta = 60
    /\ pattern = Names
    /\ updated_since \in IF variant = "updated" THEN SinceArgs ELSE {NoSince}
    /\ gen = "created"
    /\ gpc = "start"
    /\ content_log_lines = <<>>
    /\ files = <<>>
    /\ indx = 0
    /\ call = IdleCall
    /\ listing = NoListing
    /\ storage = {}
    /\ issued = <<>>
    /\ emitted = <<>>
    /\ yielded = NoTriple
    /\ exc = ""
    /\ consumer = "pulling"

Next ==
    \/ Pull
    \/ Stop
    \/ StartUpdated
    \/ AfterLog
    \/ StartStatic
    \/ AfterListing
    \/ LoopFetch
    \/ LoopEnd
    \/ AfterFetch
    \/ GetFile_urlopen
    \/ GetFile_store
    \/ GetFile_archive
    \/ GetFile_text
    \/ GetFile_dispatch

Spec == Init /\ [][Next]_vars

-----------------------------------------------------------------------------
(* getUpdatedData called on its own: every list of lines, every cutoff. *)

ResolverNames == {<<"a", ".json">>, <<"c", ".txt">>}

\* well-formed lines, the line "c.txt|120" of two fields, a line of four
\* fields, and a line whose third field is no timestamp
ResolverLines ==
    {<<n, "120", st>> : n \in ResolverNames, st \in Stamps}
    \cup {<<<<"c", ".txt">>, "120">>,
          <<<<"c", ".txt">>, "120", [iso |-> TRUE, t |-> 61], "x">>,
          <<<<"c", ".txt">>, "120", BadStamp>>}

InitResolver ==
    /\ variant = "resolver"
    /\ url_base \in {"", "https://h/"}
    /\ localStoragePath = FALSE
    /\ min_delta \in {0, 60}
    /\ pattern = Names
    /\ updated_since \in {[kind |-> "datetime", wall |-> 0, off |-> o] : o \in {0, 3600}}
    /\ gen = "running"
    /\ gpc = "resolve"
    /\ content_log_lines \in SeqUpTo(ResolverLines, MaxLogLines)
    /\ files = <<>>
    /\ indx = 0
    /\ call = IdleCall
    /\ listing = NoListing
    /\ storage = {}
    /\ issued = <<>>
    /\ emitted = <<>>
    /\ yielded = NoTriple
    /\ exc = ""
    /\ consumer = "pulling"

\* updated_files = self.getUpdatedData(content_log_lines)
Resolve ==
    /\ variant = "resolver" /\ gpc = "resolve"
    /\ LET r == getUpdatedData(content_log_lines)
       IN  /\ files' = r.files
           /\ exc' = r.exc
           /\ gen' = IF r.exc = "" THEN "done" ELSE "raised"
    /\ gpc' = "resolved"
    /\ UNCHANGED <<config, updated_since, content_log_lines, indx, call, listing,
                   storage, issued, emitted, yielded, consumer>>

NextResolver == Resolve

SpecResolver == InitResolver /\ [][NextResolver]_vars

-----------------------------------------------------------------------------
(* C1, C2: the change-log resolver. *)

WellFormed(line) == Len(line) = 3 /\ line[3].iso

\* the URLs of the lines that changed more than min_delta seconds after the
\* cutoff, in the order of the log
SelectedUrls(lines) ==
    LET sel == SelectSeq(lines, LAMBDA l :
                   l[3].t - (updated_since.wall - updated_since.off) > min_delta)
    IN  [i \in 1..Len(sel) |-> [prefix |-> url_base, path |-> sel[i][1]]]

Resolved == variant = "resolver" /\ gpc = "resolved"

\* C1: for every list of well-formed lines and every cutoff, getUpdatedData
\* returns exactly the paths of the lines whose changed_at (UTC) lies strictly
\* more than min_delta seconds after the cutoff (UTC), in log order.
C1_SelectsExactlyTheNewerLines ==
    (Resolved /\ \A i \in 1..Len(content_log_lines) : WellFormed(content_log_lines[i]))
        => (exc = "" /\ files = SelectedUrls(content_log_lines))

\* C2: a line that does not split into exactly three fields is dropped and
\* resolution goes on: the result is that of the list without such lines.
\* (Stated for a configured url_base and ISO timestamps, where C1's case of
\* an empty url_base plays no part.)
C2_MalformedLinesAreDropped ==
    (/\ Resolved
     /\ url_base # ""
     /\ \A i \in 1..Len(content_log_lines) :
            Len(content_log_lines[i]) = 3 => content_log_lines[i][3].iso)
        => (/\ exc = ""
            /\ files = SelectedUrls(SelectSeq(content_log_lines, LAMBDA l : Len(l) = 3)))

-----------------------------------------------------------------------------
(* What a getFile call was asked for and what it met. *)

OuterExt(c) == splitext(c.url.path)[2]
Archived(c) == OuterExt(c) \in archiveFileExt
\* the extension once an archive extension is taken off
InnerExt(c) == IF Archived(c) THEN splitext(splitext(c.url.path)[1])[2] ELSE OuterExt(c)

Started(c) == c.trace # <<>>
Finished(c) == c.pc \in {"returned", "raised"}
\* the body of the response was read: rs was assigned
Retrieved(c) == Started(c) /\ c.rs.type # "unbound"
Requests(c) == Len(SelectSeq(c.trace, LAMBDA e : e = "urlopen"))
Decoders(c) == {c.trace[i] : i \in 1..Len(c.trace)} \cap {"utf-8", "iso-8859-15", "json.loads"}

\* the bytes inside the resource: the wire bytes, out of their archive if any
Unwrapped(c) == IF Archived(c) THEN unpack(c.wire, OuterExt(c))
                ELSE [exc |-> "", rs |-> Bytes(c.wire)]
HasPayload(c) == Retrieved(c) /\ Unwrapped(c).exc = "" /\ Unwrapped(c).rs.type = "bytes"
Payload(c) == Unwrapped(c).rs.data
IsGribPayload(c) == HasPayload(c) /\ startswith(Payload(c), GRIB)

ZipMemberCount(w) == IF startswith(w, <<80, 75>>) /\ Len(w) >= 3 THEN w[3] ELSE 0

-----------------------------------------------------------------------------
(* C3, C4: errors of one candidate. *)

\* the three decode errors of one resource: a zip with more than one member,
\* a .bin resource, a .json/.geojson resource that is not a JSON document
AmbiguousArchive(c) == OuterExt(c) = ".zip" /\ ZipMemberCount(c.wire) > 1
Unsupported(c) == OuterExt(c) = ".bin"
InvalidJson(c) ==
    /\ InnerExt(c) \in {".json", ".geojson"}
    /\ HasPayload(c)
    /\ json_loads(Bytes(Payload(c))).res # "ok"
LocalDecodeError(c) ==
    Retrieved(c) /\ (AmbiguousArchive(c) \/ Unsupported(c) \/ InvalidJson(c))

\* C3: a decode error local to one candidate (invalid JSON, a zip with more
\* than one member, a .bin resource) makes that fetch return a failure value:
\* it never raises, so the pipeline goes on with the next candidate.
C3_LocalDecodeErrorReturnsFailure ==
    (call.caller = "loop" /\ Finished(call) /\ LocalDecodeError(call))
        => (call.pc = "returned" /\ ~call.ret.ok /\ gen # "raised")

\* C4: whenever the retrieval of a candidate fails (HTTP error, a status that
\* is not 200, a transport error) getFile has issued exactly one request and
\* returns (False, errorInfo) instead of raising.
C4_RetrievalFailureReturnsFailure ==
    (call.caller = "loop" /\ Finished(call) /\ ~Retrieved(call))
        => (call.pc = "returned" /\ ~call.ret.ok /\ Requests(call) = 1 /\ gen # "raised")

-----------------------------------------------------------------------------
(* C5: the index of a yielded triple. *)

\* C5 as stated: the j-th triple yielded, counted from 0, carries index j.
C5_IndexIsEmissionOrder ==
    \A j \in 1..Len(emitted) : emitted[j].indx = j - 1

\* C5 amended: a yielded triple carries the position of its candidate in the
\* list of candidates and that candidate's base name; the indices yielded
\* increase strictly, and skip the positions of the candidates left out.
C5_IndexIsCandidatePosition ==
    /\ \A j \in 1..Len(emitted) :
          /\ emitted[j].indx \in 0..(Len(files) - 1)
          /\ emitted[j].indx >= j - 1
          /\ emitted[j].basename = splitext(files[emitted[j].indx + 1].path)[1]
          /\ (j > 1 => emitted[j - 1].indx < emitted[j].indx)
    /\ (gen = "suspended" =>
          /\ emitted # <<>> /\ issued # <<>>
          /\ yielded.indx = issued[Len(issued)]
          /\ emitted[Len(emitted)].indx = yielded.indx)

\* the second candidate is yielded after the first was skipped: index 1 first
C5_Witness ==
    /\ Len(emitted) = 1
    /\ emitted[1].indx = 1
    /\ gen = "suspended"

-----------------------------------------------------------------------------
(* C6: a failed discovery. *)

DiscoveryFailed ==
    \/ (gen = "running" /\ gpc = "log" /\ call.pc = "returned" /\ ~call.ret.ok)
    \/ (gen = "running" /\ gpc = "list" /\ listing.pc = "returned" /\ ~listing.ok)

\* C6: when the change-log fetch or the directory listing returns a failure,
\* the next step of the run raises BaseException to the caller, with no fetch
\* of a candidate issued, no file stored and no triple yielded; and a run that
\* raised takes no further step.
C6_DiscoveryFailureAborts ==
    [][/\ DiscoveryFailed =>
            /\ gen' = "raised" /\ exc' = "BaseException"
            /\ issued' = <<>> /\ emitted' = <<>> /\ storage' = {}
       /\ gen = "raised" => FALSE]_vars

C6_Witness ==
    /\ variant = "updated" /\ localStoragePath
    /\ gen = "raised" /\ exc = "BaseException"
    /\ call.pc = "returned" /\ ~call.ret.ok

-----------------------------------------------------------------------------
(* C7: payloads that begin with GRIB. *)

\* C7 as stated: a payload that begins with GRIB is never text-decoded and
\* never handed to the JSON parser, whatever the extensions; getFile returns
\* it as the unchanged bytes.
C7_GribNeverDecoded ==
    (Finished(call) /\ IsGribPayload(call))
        => (/\ call.pc = "returned" /\ call.ret.ok
            /\ call.ret.val = Bytes(Payload(call))
            /\ Decoders(call) = {})

\* C7 amended: decompress does not text-decode an archived payload that begins
\* with GRIB but hands back its unchanged bytes, and getFile returns these
\* bytes, undecoded, when the extension under the archive starts with .grib;
\* a resource named .grib* that is no archive is returned as its bytes too.
C7_GribShortCircuitInDecompress ==
    /\ (call.pc = "text" /\ Archived(call) /\ IsGribPayload(call))
          => (call.rs = Bytes(Payload(call)) /\ Decoders(call) = {})
    /\ (Finished(call) /\ IsGribPayload(call) /\ StartsWithGrib(InnerExt(call)))
          => (/\ call.pc = "returned" /\ call.ret.ok
              /\ call.ret.val = Bytes(Payload(call))
              /\ Decoders(call) = {})

\* e.grib2.bz2 holding ASCII GRIB data is returned as bytes
C7_Witness ==
    /\ call.pc = "returned" /\ Archived(call)
    /\ StartsWithGrib(InnerExt(call))
    /\ IsGribPayload(call) /\ Payload(call) = GribAscii
    /\ call.ret.ok /\ call.ret.val.type = "bytes"

-----------------------------------------------------------------------------
(* C8: the copy under localStoragePath. *)

\* C8: with localStoragePath set and a URL that is not file://, the stored
\* file holds the wire bytes in every state in which a decode step may start;
\* a call whose URL is file:// or whose retrieval failed changes no file.
C8_StoredBeforeDecodeOnlyIfRetrieved ==
    [][/\ (call'.pc \in {"archive", "text", "dispatch"} /\ Stores(call'.url))
            => ([name |-> call'.url.path, data |-> call'.wire] \in storage')
       /\ (call.pc \in {"urlopen", "store"}
              /\ (StartsWithFileSlashes(call.url) \/ ~Retrieved(call)))
            => storage' = storage]_vars

-----------------------------------------------------------------------------
(* C9: laziness. *)

\* C9: a fetch is issued only while the consumer's next() is running and no
\* other fetch is in progress, for the candidate right after the ones already
\* fetched; while the generator waits, and after the consumer stopped, none is.
C9_FetchesAreLazyAndInOrder ==
    [][/\ issued' # issued =>
            /\ gen = "running" /\ consumer = "pulling"
            /\ call.pc = "idle"
            /\ indx = Len(issued)
            /\ issued' = Append(issued, Len(issued))
            /\ Len(emitted) <= Len(issued)
       /\ (gen # "running" \/ consumer = "stopped") =>
            /\ issued' = issued /\ call' = call /\ storage' = storage]_vars

\* the consumer stopped after the first triple, a candidate left unfetched
C9_Witness ==
    /\ consumer = "stopped"
    /\ Len(emitted) = 1
    /\ Len(issued) < Len(files)

-----------------------------------------------------------------------------
(* C10: text resources. *)

\* C10: a resource whose extension under the archive is a text type comes
\* back as its UTF-8 decoding when it is valid UTF-8, without the fallback,
\* and as its ISO-8859-15 decoding otherwise; the fetch neither fails nor
\* raises.
C10_TextDecodesWithFallback ==
    (Finished(call) /\ HasPayload(call) /\ InnerExt(call) \in textFileExt)
        => LET u == Utf8Decode(Payload(call))
           IN  /\ call.pc = "returned" /\ call.ret.ok
               /\ call.ret.val = Str(IF u.ok THEN u.data ELSE Iso885915Decode(Payload(call)))
               /\ (u.ok => "iso-8859-15" \notin Decoders(call))

====
